---- MODULE Spec2Model ----
(***************************************************************************)
(* Handler lifecycle of the repository: BaseHandler.execute() with its two *)
(* specializations, APIGatewayBaseHandler (HTTP) and CognitoBaseHandler    *)
(* (identity events), and the mediators the HTTP helpers delegate to.      *)
(*                                                                         *)
(* One behaviour of the model is one invocation: an instance is built from *)
(* (context, event[, schema]), execute() is called once, handleRequest()   *)
(* (the subclass body) runs some helper calls and then resolves or throws, *)
(* and execute() finishes by returning or by propagating a failure.        *)
(***************************************************************************)
EXTENDS Integers, Sequences, FiniteSets, TLC

\* Largest number of helper calls (checkAccess, parseSchema, parseJSONBody) one
\* run of handleRequest() makes before it resolves or throws.
MaxHelperCalls == 2

VARIABLES
    variant,            \* "Http" (APIGatewayBaseHandler) or "Identity" (CognitoBaseHandler)
    this,               \* the instance's fields: context, event (references), schema (Http)
    heap,               \* heap[ref]: the contents of the event object behind a reference
    pc,                 \* lifecycle state of the invocation
    hr,                 \* the promise of handleRequest(): idle, pending, resolved or rejected
    helperTrace,        \* the helper calls handleRequest() has made: op, args, ret, calls
    nextId,             \* identity of the next Error object to be constructed
    logs,               \* what context.logger has been given, in order
    handleErrorCalls,   \* the calls to this.handleError: the argument and how it ended
    mediatorCalls,      \* the calls to the imported mediators, in order
    outcome             \* how execute() ended: pending, return (value) or throw (value)

\* The database reset script (resetDatabase), a program of its own.
VARIABLES
    dbEnv,              \* what the script finds: DB_SECRET_ARN, the secret, its port
    dbpc,               \* the statement resetDatabase() is at
    dbClient,           \* the pg Client constructed (none before that)
    dbCalls,            \* the calls made on the client, in order: step and method
    dbConsole,          \* console.log / console.error output, in order
    dbCaught,           \* the error the catch block caught (none or one)
    dbResult            \* the promise of resetDatabase(): pending, resolved, rejected

handlerVars == <<variant, this, heap, pc, hr, helperTrace, nextId, logs,
                 handleErrorCalls, mediatorCalls, outcome>>
dbVars == <<dbEnv, dbpc, dbClient, dbCalls, dbConsole, dbCaught, dbResult>>
vars == <<handlerVars, dbVars>>

----------------------------------------------------------------------------
(* Values *)

\* References to the two objects handed to the constructor.
ContextRef == "ctx#1"
EventRef == "evt#1"

\* An Error object: `id` is the object's identity, so that "the same instance"
\* and "an equal copy" differ.
NewError(id, name, message) ==
    [type |-> "Error", id |-> id, name |-> name, message |-> message]

\* error instanceof Error
InstanceOfError(x) == x.type = "Error"

\* Values that are not Error instances and can be thrown all the same.
NonErrorValues ==
    { [type |-> "string", val |-> "boom"],
      [type |-> "number", val |-> "42"],
      [type |-> "undefined", val |-> ""] }

\* Errors the business logic inside handleRequest() throws (name, message).
DomainErrors ==
    { <<"Error", "invalid token">>, <<"DomainError", "record not found">> }

\* logger.info(msg) / logger.error(msg, meta)
NoMeta == [none |-> TRUE]
LogEntry(level, msg, meta) == [level |-> level, msg |-> msg, meta |-> meta]

\* A JSON text is a sequence of tokens; a parsed object maps keys to value tokens.
KeyTokens == {"a", "b"}
NumberTokens == {"1"}
StringTokens == {"'x'"}
ValueTokens == NumberTokens \cup StringTokens
EmptyMapping == [k \in {} |-> ""]

\* event.body: string | null
NullBody == [isNull |-> TRUE, text |-> <<>>]
StringBody(text) == [isNull |-> FALSE, text |-> text]
BodyTexts ==
    { <<>>,                                   \* ""
      <<"{", "}">>,                           \* {}
      <<"{", "a", ":", "1", "}">>,            \* {"a":1}
      <<"{", "a", ":", "'x'", ",", "b", ":", "1", "}">>,   \* {"a":"x","b":1}
      <<"{">> }                               \* { (malformed)
Bodies == {NullBody} \cup {StringBody(t) : t \in BodyTexts}

ContentTypes == {"application/json", "text/plain"}
AuthRoles == {"admin", "user"}

\* APIGatewayProxyEvent, as far as the handlers and mediators read it.
HttpEvents ==
    [ body : Bodies,
      headers : [contentType : ContentTypes],
      groups : SUBSET AuthRoles,
      path : {"/items"} ]

\* An identity-provider trigger event.
IdentityEvents ==
    [ triggerSource : {"PreSignUp_SignUp", "PostConfirmation_ConfirmSignUp"},
      userName : {"alice", "bob"} ]

\* ZodSchema: the fields the schema requires of the body, with their kinds.
SchemaNoFields == [fields |-> EmptyMapping]
SchemaANumber == [fields |-> [a |-> "number"]]
Schemas == {SchemaNoFields, SchemaANumber}

----------------------------------------------------------------------------
(* JSON text <-> mapping *)

RECURSIVE ParseMembers(_, _, _)
\* Members of an object from position i of text, m being the members read so far.
ParseMembers(text, i, m) ==
    IF i + 3 > Len(text) THEN [ok |-> FALSE, value |-> EmptyMapping]
    ELSE IF ~(text[i] \in KeyTokens /\ text[i + 1] = ":" /\ text[i + 2] \in ValueTokens)
    THEN [ok |-> FALSE, value |-> EmptyMapping]
    ELSE LET m2 == [k \in DOMAIN m \cup {text[i]} |->
                       IF k = text[i] THEN text[i + 2] ELSE m[k]]
         IN IF text[i + 3] = "}"
            THEN [ok |-> i + 3 = Len(text), value |-> IF i + 3 = Len(text) THEN m2 ELSE EmptyMapping]
            ELSE IF text[i + 3] = ","
            THEN ParseMembers(text, i + 4, m2)
            ELSE [ok |-> FALSE, value |-> EmptyMapping]

\* JSON.parse of a flat object.
JsonParse(text) ==
    IF Len(text) < 2 \/ text[1] # "{" THEN [ok |-> FALSE, value |-> EmptyMapping]
    ELSE IF text = <<"{", "}">> THEN [ok |-> TRUE, value |-> EmptyMapping]
    ELSE ParseMembers(text, 2, EmptyMapping)

KeyOrder == <<"a", "b">>

RECURSIVE StringifyMembers(_, _, _)
StringifyMembers(m, i, first) ==
    IF i > Len(KeyOrder) THEN <<>>
    ELSE IF KeyOrder[i] \in DOMAIN m
    THEN (IF first THEN <<>> ELSE <<",">>) \o <<KeyOrder[i], ":", m[KeyOrder[i]]>>
             \o StringifyMembers(m, i + 1, FALSE)
    ELSE StringifyMembers(m, i + 1, first)

\* JSON.stringify of a flat object.
JsonStringify(m) == <<"{">> \o StringifyMembers(m, 1, TRUE) \o <<"}">>

----------------------------------------------------------------------------
(* Outcomes of calls *)

Undefined == [type |-> "undefined", val |-> ""]
Return(v) == [kind |-> "return", val |-> v]
Throw(x) == [kind |-> "throw", val |-> x]
NoArgs == [none |-> TRUE]
\* One call of a mediator: its name, its arguments and how it ended.
MediatorCall(name, args, ret) == [mediator |-> name, args |-> args, ret |-> ret]

----------------------------------------------------------------------------
(* Mediators (@utils/...): the collaborators the HTTP helpers delegate to *)

\* @utils/auth checkAccess(context, event, roles): rejects with AuthorizationError
\* when the actor of the event holds none of the given roles.
utils_checkAccess(context, event, roles) ==
    IF roles \cap heap[event].groups = {}
    THEN Throw(NewError(nextId, "AuthorizationError", "Forbidden"))
    ELSE Return(Undefined)

\* @utils/mediators/json-body-parser parseJSONBody(context, body, headers): the
\* possible outcomes. Malformed JSON under a JSON content type is a ParseError; what
\* it does with an absent body or another content type is the mediator's to define.
utils_parseJSONBody(context, body, headers) ==
    LET parseError == Throw(NewError(nextId, "ParseError", "Malformed JSON body"))
        parsed == JsonParse(body.text)
    IN  IF body.isNull THEN {Return(EmptyMapping), parseError}
        ELSE IF headers.contentType = "application/json"
        THEN {IF parsed.ok THEN Return(parsed.value) ELSE parseError}
        ELSE {Return(EmptyMapping), parseError}
                 \cup (IF parsed.ok THEN {Return(parsed.value)} ELSE {})

\* Whether a parsed body has the fields a schema requires, each of its kind.
Conforms(schema, body) ==
    \A k \in DOMAIN schema.fields :
        /\ k \in DOMAIN body
        /\ schema.fields[k] = "number" => body[k] \in NumberTokens
        /\ schema.fields[k] = "string" => body[k] \in StringTokens

\* @utils/mediators/zod-parser zodParser(context, schema, customEvent): the validated
\* value (the schema's fields, unknown keys stripped) or a ValidationError.
zodParser(context, schema, customEvent) ==
    IF Conforms(schema, customEvent.body)
    THEN Return([k \in DOMAIN schema.fields |-> customEvent.body[k]])
    ELSE Throw(NewError(nextId, "ValidationError", "Invalid request"))

\* @utils/response formatResponse(response): the platform's response representation.
utils_formatResponse(response) ==
    [type |-> "response", statusCode |-> response.statusCode,
     body |-> JsonStringify(response.body)]

\* Status code and public message the error classifier gives an error kind.
Classify(error) ==
    CASE error.name = "ValidationError" -> [statusCode |-> 400, message |-> error.message]
      [] error.name = "ParseError" -> [statusCode |-> 400, message |-> error.message]
      [] error.name = "AuthorizationError" -> [statusCode |-> 403, message |-> error.message]
      [] OTHER -> [statusCode |-> 500, message |-> "Internal Server Error"]

\* @utils/mediators/error-handler handleError(context, error, event): total; logs the
\* error once and returns the response of its kind.
utils_handleError(context, error, event) ==
    [ret |-> Return([type |-> "response", statusCode |-> Classify(error).statusCode,
                     body |-> <<"{", "message", ":", Classify(error).message, "}">>]),
     logs |-> <<LogEntry("error", "Request failed", [error |-> error, event |-> event])>>]

----------------------------------------------------------------------------
(* APIGatewayBaseHandler and CognitoBaseHandler: the methods, as their effects *)
(* (ret: how the call ends; calls: the mediator calls made; logs: log entries) *)

\* Mutant of APIGateway_checkAccess: an empty role set is replaced by every role.
APIGateway_checkAccess_defaultRoles(roles) ==
    LET given == IF roles = {} THEN AuthRoles ELSE roles
        ret == utils_checkAccess(this.context, this.event, given)
    IN  [op |-> "checkAccess", args |-> [roles |-> roles], ret |-> ret,
         calls |-> <<MediatorCall("checkAccess",
                        [context |-> this.context, event |-> this.event, roles |-> given],
                        ret)>>]

\* APIGatewayBaseHandler.checkAccess(roles)
APIGateway_checkAccess(roles) ==
    LET ret == utils_checkAccess(this.context, this.event, roles)
    IN  [op |-> "checkAccess", args |-> [roles |-> roles], ret |-> ret,
         calls |-> <<MediatorCall("checkAccess",
                        [context |-> this.context, event |-> this.event, roles |-> roles],
                        ret)>>]

\* APIGatewayBaseHandler.parseJSONBody(body, headers): one effect per mediator outcome
APIGateway_parseJSONBody(body, headers) ==
    { [op |-> "parseJSONBody", args |-> [body |-> body, headers |-> headers],
       ret |-> o,
       calls |-> <<MediatorCall("parseJSONBody",
                      [context |-> this.context, body |-> body, headers |-> headers],
                      o)>>]
      : o \in utils_parseJSONBody(this.context, body, headers) }

\* JavaScript truthiness of a `string | null`: null and "" are falsy.
Truthy(body) == ~body.isNull /\ body.text # <<>>

\* The validator call of parseSchema() on the derived view.
ValidateView(customEvent, before) ==
    LET ret == zodParser(this.context, this.schema, customEvent)
    IN  [op |-> "parseSchema", args |-> NoArgs, ret |-> ret,
         calls |-> before \o <<MediatorCall("zodParser",
                      [context |-> this.context, schema |-> this.schema,
                       customEvent |-> customEvent],
                      ret)>>]

\* Mutant of APIGateway_parseSchema: the body is tested against null, not for truth.
APIGateway_parseSchema_nullTest ==
    LET event == heap[this.event]
    IN  IF ~event.body.isNull
        THEN { IF pj.ret.kind = "throw"
               THEN [op |-> "parseSchema", args |-> NoArgs, ret |-> pj.ret,
                     calls |-> pj.calls]
               ELSE ValidateView([event EXCEPT !.body = pj.ret.val], pj.calls)
               : pj \in APIGateway_parseJSONBody(event.body, event.headers) }
        ELSE { ValidateView([event EXCEPT !.body = EmptyMapping], <<>>) }

\* APIGatewayBaseHandler.parseSchema(): one effect per outcome of the body parser
APIGateway_parseSchema ==
    LET event == heap[this.event]
    IN  IF Truthy(event.body)
        THEN { IF pj.ret.kind = "throw"
               THEN [op |-> "parseSchema", args |-> NoArgs, ret |-> pj.ret,
                     calls |-> pj.calls]
               ELSE ValidateView([event EXCEPT !.body = pj.ret.val], pj.calls)
               : pj \in APIGateway_parseJSONBody(event.body, event.headers) }
        ELSE { ValidateView([event EXCEPT !.body = EmptyMapping], <<>>) }

\* APIGatewayBaseHandler.formatResponse(response)
APIGateway_formatResponse(response) ==
    LET ret == Return(utils_formatResponse(response))
    IN  [op |-> "formatResponse", args |-> [response |-> response], ret |-> ret,
         calls |-> <<MediatorCall("formatResponse", [response |-> response], ret)>>]

\* Mutant of APIGateway_handleError: an error of no known kind is thrown again.
APIGateway_handleError_rethrowsUnknown(error) ==
    LET h == utils_handleError(this.context, error, this.event)
        ret == IF Classify(error).statusCode = 500 THEN Throw(error) ELSE h.ret
    IN  [ret |-> ret, logs |-> h.logs,
         calls |-> <<MediatorCall("handleError",
                        [context |-> this.context, error |-> error, event |-> this.event],
                        h.ret)>>]

\* APIGatewayBaseHandler.handleError(error)
APIGateway_handleError(error) ==
    LET h == utils_handleError(this.context, error, this.event)
    IN  [ret |-> h.ret, logs |-> h.logs,
         calls |-> <<MediatorCall("handleError",
                        [context |-> this.context, error |-> error, event |-> this.event],
                        h.ret)>>]

\* Mutant of Cognito_handleError: the error is wrapped in a new Error before the throw.
Cognito_handleError_wraps(error) ==
    [ret |-> Throw(NewError(nextId + 1, error.name, error.message)),
     logs |-> <<LogEntry("error", "Error occurred in Cognito handler",
                         [error |-> error, event |-> this.event])>>,
     calls |-> <<>>]

\* Mutant of Cognito_handleError: the error is logged and the event returned.
Cognito_handleError_returnsEvent(error) ==
    [ret |-> Return([type |-> "event", ref |-> this.event]),
     logs |-> <<LogEntry("error", "Error occurred in Cognito handler",
                         [error |-> error, event |-> this.event])>>,
     calls |-> <<>>]

\* CognitoBaseHandler.handleError(error)
Cognito_handleError(error) ==
    [ret |-> Throw(error),
     logs |-> <<LogEntry("error", "Error occurred in Cognito handler",
                         [error |-> error, event |-> this.event])>>,
     calls |-> <<>>]

\* this.handleError(error): the specialization's override
handleError(error) ==
    IF variant = "Http" THEN APIGateway_handleError(error) ELSE Cognito_handleError(error)

----------------------------------------------------------------------------
(* Construction *)

\* BaseHandler.constructor(context, event)
BaseHandler_constructor(context, event) == [context |-> context, event |-> event]

\* APIGatewayBaseHandler.constructor(context, event, schema)
APIGateway_constructor(context, event, schema) ==
    [f \in {"context", "event", "schema"} |->
        IF f = "schema" THEN schema ELSE BaseHandler_constructor(context, event)[f]]

Pending == [state |-> "pending", val |-> Undefined]

\* The reset script is not run.
DbOff ==
    /\ dbEnv = [secretArn |-> FALSE, send |-> "ok", secretString |-> "empty", port |-> 0]
    /\ dbpc = "off"
    /\ dbClient = {}
    /\ dbCalls = <<>>
    /\ dbConsole = <<>>
    /\ dbCaught = {}
    /\ dbResult = [state |-> "pending", error |-> {}]

Init ==
    /\ DbOff
    /\ \/ /\ variant = "Identity"
          /\ \E e \in IdentityEvents : heap = [r \in {EventRef} |-> e]
          /\ this = BaseHandler_constructor(ContextRef, EventRef)
       \/ /\ variant = "Http"
          /\ \E e \in HttpEvents : heap = [r \in {EventRef} |-> e]
          /\ \E s \in Schemas : this = APIGateway_constructor(ContextRef, EventRef, s)
    /\ pc = "Created"
    /\ hr = [state |-> "idle", val |-> Undefined]
    /\ helperTrace = <<>>
    /\ nextId = 1
    /\ logs = <<>>
    /\ handleErrorCalls = <<>>
    /\ mediatorCalls = <<>>
    /\ outcome = [kind |-> "pending", val |-> Undefined]

----------------------------------------------------------------------------
(* BaseHandler.execute() *)

\* Mutant of execute_start: the start log is left out.
execute_start_noLog ==
    /\ pc = "Created"
    /\ hr' = Pending
    /\ pc' = "Running"
    /\ UNCHANGED <<dbVars, variant, this, heap, helperTrace, nextId, logs, handleErrorCalls,
                   mediatorCalls, outcome>>

\* execute(), up to the await of handleRequest() (lines 15-18)
execute_start ==
    /\ pc = "Created"
    /\ logs' = Append(logs, LogEntry("info", "Execution started", NoMeta))
    /\ hr' = Pending
    /\ pc' = "Running"
    /\ UNCHANGED <<dbVars, variant, this, heap, helperTrace, nextId, handleErrorCalls,
                   mediatorCalls, outcome>>

\* Mutant of execute_try: the result is logged but not returned.
execute_try_noReturn(result) ==
    [ret |-> Return(Undefined),
     logs |-> <<LogEntry("info", "Request handled successfully", NoMeta)>>,
     handleErrorCalls |-> <<>>, calls |-> <<>>, created |-> 0]

\* execute(), after handleRequest() resolved with result (lines 18-21)
execute_try(result) ==
    [ret |-> Return(result),
     logs |-> <<LogEntry("info", "Request handled successfully", NoMeta)>>,
     handleErrorCalls |-> <<>>, calls |-> <<>>, created |-> 0]

\* Mutant of execute_catch: every caught value is logged before handleError runs.
execute_catch_logsAll(error) ==
    LET e == IF InstanceOfError(error) THEN error
             ELSE NewError(nextId, "Error", "Unknown error occurred")
        h == handleError(e)
    IN  [ret |-> h.ret,
         logs |-> <<LogEntry("error", "Unknown error occurred",
                             [data |-> [error |-> error]])>> \o h.logs,
         handleErrorCalls |-> <<[error |-> e, ret |-> h.ret]>>,
         calls |-> h.calls, created |-> IF InstanceOfError(error) THEN 0 ELSE 1]

\* Mutant of execute_catch: the synthesized error's message is built from the value.
execute_catch_messageFromValue(error) ==
    LET e == IF InstanceOfError(error) THEN error
             ELSE NewError(nextId, "Error", error.val)
        h == handleError(e)
    IN  [ret |-> h.ret,
         logs |-> (IF InstanceOfError(error) THEN <<>>
                   ELSE <<LogEntry("error", "Unknown error occurred",
                                   [data |-> [error |-> error]])>>) \o h.logs,
         handleErrorCalls |-> <<[error |-> e, ret |-> h.ret]>>,
         calls |-> h.calls, created |-> IF InstanceOfError(error) THEN 0 ELSE 1]

\* Mutant of execute_catch: a failure of handleError is caught and undefined returned.
execute_catch_swallows(error) ==
    LET e == IF InstanceOfError(error) THEN error
             ELSE NewError(nextId, "Error", "Unknown error occurred")
        h == handleError(e)
    IN  [ret |-> IF h.ret.kind = "throw" THEN Return(Undefined) ELSE h.ret,
         logs |-> (IF InstanceOfError(error) THEN <<>>
                   ELSE <<LogEntry("error", "Unknown error occurred",
                                   [data |-> [error |-> error]])>>) \o h.logs,
         handleErrorCalls |-> <<[error |-> e, ret |-> h.ret]>>,
         calls |-> h.calls, created |-> IF InstanceOfError(error) THEN 0 ELSE 1]

\* Mutant of execute_catch: a failure of handleError is wrapped in a new Error.
execute_catch_wrapsFailure(error) ==
    LET e == IF InstanceOfError(error) THEN error
             ELSE NewError(nextId, "Error", "Unknown error occurred")
        h == handleError(e)
    IN  [ret |-> IF h.ret.kind = "throw"
                 THEN Throw(NewError(nextId + 1, "Error", "Error handling failed"))
                 ELSE h.ret,
         logs |-> (IF InstanceOfError(error) THEN <<>>
                   ELSE <<LogEntry("error", "Unknown error occurred",
                                   [data |-> [error |-> error]])>>) \o h.logs,
         handleErrorCalls |-> <<[error |-> e, ret |-> h.ret]>>,
         calls |-> h.calls, created |-> IF InstanceOfError(error) THEN 0 ELSE 1]

\* execute(), the catch block for the thrown value error (lines 22-31)
execute_catch(error) ==
    IF InstanceOfError(error)
    THEN LET h == handleError(error)
         IN  [ret |-> h.ret, logs |-> h.logs,
              handleErrorCalls |-> <<[error |-> error, ret |-> h.ret]>>,
              calls |-> h.calls, created |-> 0]
    ELSE LET genericError == NewError(nextId, "Error", "Unknown error occurred")
             h == handleError(genericError)
         IN  [ret |-> h.ret,
              logs |-> <<LogEntry("error", "Unknown error occurred",
                                  [data |-> [error |-> error]])>> \o h.logs,
              handleErrorCalls |-> <<[error |-> genericError, ret |-> h.ret]>>,
              calls |-> h.calls, created |-> 1]

\* How execute() ends with the effects eff of its try or catch path.
Finish(eff, terminal) ==
    /\ logs' = logs \o eff.logs
    /\ handleErrorCalls' = handleErrorCalls \o eff.handleErrorCalls
    /\ mediatorCalls' = mediatorCalls \o eff.calls
    /\ nextId' = nextId + eff.created
    /\ outcome' = eff.ret
    /\ pc' = terminal
    /\ UNCHANGED <<dbVars, variant, this, heap, hr, helperTrace>>

execute_onResolve ==
    /\ pc = "Running"
    /\ hr.state = "resolved"
    /\ Finish(execute_try(hr.val), "Succeeded")

execute_onReject ==
    /\ pc = "Running"
    /\ hr.state = "rejected"
    /\ LET eff == execute_catch(hr.val)
       IN  Finish(eff, IF eff.ret.kind = "return" THEN "FailedHandled"
                       ELSE "FailedEscalated")

----------------------------------------------------------------------------
(* handleRequest(): the subclass's body, as the calls it can make *)

\* One helper call with effects eff: a helper that throws rejects handleRequest().
HelperStep(eff) ==
    /\ helperTrace' = Append(helperTrace, eff)
    /\ mediatorCalls' = mediatorCalls \o eff.calls
    /\ IF eff.ret.kind = "throw"
       THEN hr' = [state |-> "rejected", val |-> eff.ret.val] /\ nextId' = nextId + 1
       ELSE UNCHANGED <<hr, nextId>>
    /\ UNCHANGED <<dbVars, variant, this, heap, pc, logs, handleErrorCalls, outcome>>

InHandleRequest == pc = "Running" /\ hr.state = "pending"

hr_checkAccess ==
    /\ InHandleRequest /\ variant = "Http"
    /\ Len(helperTrace) < MaxHelperCalls
    /\ \E roles \in SUBSET AuthRoles : HelperStep(APIGateway_checkAccess(roles))

\* Mutant of hr_parseSchema: the parsed body is assigned to the event itself
\* (Object.assign(this.event, {body})) instead of to a copy of it.
hr_parseSchema_assignsBody ==
    /\ InHandleRequest /\ variant = "Http"
    /\ Len(helperTrace) < MaxHelperCalls
    /\ \E eff \in APIGateway_parseSchema :
          LET last == eff.calls[Len(eff.calls)]
          IN  /\ helperTrace' = Append(helperTrace, eff)
              /\ mediatorCalls' = mediatorCalls \o eff.calls
              /\ IF eff.ret.kind = "throw"
                 THEN hr' = [state |-> "rejected", val |-> eff.ret.val]
                          /\ nextId' = nextId + 1
                 ELSE UNCHANGED <<hr, nextId>>
              /\ heap' = IF last.mediator = "zodParser"
                         THEN [heap EXCEPT ![this.event] = last.args.customEvent]
                         ELSE heap
    /\ UNCHANGED <<dbVars, variant, this, pc, logs, handleErrorCalls, outcome>>

hr_parseSchema ==
    /\ InHandleRequest /\ variant = "Http"
    /\ Len(helperTrace) < MaxHelperCalls
    /\ \E eff \in APIGateway_parseSchema : HelperStep(eff)

hr_parseJSONBody ==
    /\ InHandleRequest /\ variant = "Http"
    /\ Len(helperTrace) < MaxHelperCalls
    /\ \E eff \in APIGateway_parseJSONBody(heap[this.event].body, heap[this.event].headers) :
          HelperStep(eff)

\* What the business logic of an HTTP handler hands to formatResponse.
ResponseInputs == [statusCode : {200, 201}, body : {EmptyMapping, [a |-> "1"]}]

\* return this.formatResponse(input)
hr_returnResponse ==
    /\ InHandleRequest /\ variant = "Http"
    /\ \E input \in ResponseInputs :
         LET eff == APIGateway_formatResponse(input)
         IN  /\ helperTrace' = Append(helperTrace, eff)
             /\ mediatorCalls' = mediatorCalls \o eff.calls
             /\ hr' = [state |-> "resolved", val |-> eff.ret.val]
    /\ UNCHANGED <<dbVars, variant, this, heap, pc, nextId, logs, handleErrorCalls, outcome>>

\* return this.event
hr_returnEvent ==
    /\ InHandleRequest /\ variant = "Identity"
    /\ hr' = [state |-> "resolved", val |-> [type |-> "event", ref |-> this.event]]
    /\ UNCHANGED <<dbVars, variant, this, heap, pc, helperTrace, nextId, logs,
                   handleErrorCalls, mediatorCalls, outcome>>

\* throw new SomeError(message)
hr_throwError ==
    /\ InHandleRequest
    /\ \E d \in DomainErrors :
          hr' = [state |-> "rejected", val |-> NewError(nextId, d[1], d[2])]
    /\ nextId' = nextId + 1
    /\ UNCHANGED <<dbVars, variant, this, heap, pc, helperTrace, logs, handleErrorCalls,
                   mediatorCalls, outcome>>

\* throw "boom" (any value that is no Error)
hr_throwValue ==
    /\ InHandleRequest
    /\ \E x \in NonErrorValues : hr' = [state |-> "rejected", val |-> x]
    /\ UNCHANGED <<dbVars, variant, this, heap, pc, helperTrace, nextId, logs,
                   handleErrorCalls, mediatorCalls, outcome>>

Next ==
    \/ execute_start
    \/ hr_checkAccess
    \/ hr_parseSchema
    \/ hr_parseJSONBody
    \/ hr_returnResponse
    \/ hr_returnEvent
    \/ hr_throwError
    \/ hr_throwValue
    \/ execute_onResolve
    \/ execute_onReject

Spec == Init /\ [][Next]_vars

\* Once the promise of handleRequest() settles, the continuation of execute() runs.
FairSpec == Spec /\ WF_vars(execute_onResolve) /\ WF_vars(execute_onReject)

----------------------------------------------------------------------------
(* Properties *)

Done == pc \in {"Succeeded", "FailedHandled", "FailedEscalated"}

CountLogs(P(_)) == Cardinality({i \in DOMAIN logs : P(logs[i])})
IsStartLog(l) == l.level = "info" /\ l.msg = "Execution started"
IsSuccessLog(l) == l.level = "info" /\ l.msg = "Request handled successfully"
IsErrorLog(l) == l.level = "error"
IsDiagnosticLog(l) == l.level = "error" /\ l.msg = "Unknown error occurred"

ErrorFailure == hr.state = "rejected" /\ InstanceOfError(hr.val)
ValueFailure == hr.state = "rejected" /\ ~InstanceOfError(hr.val)

\* C1: when handleRequest() resolves with v, execute() returns exactly v, handleError
\* is never invoked, and exactly one success log is emitted (none before the return).
C1_SuccessReturnsValue ==
    hr.state = "resolved" =>
        /\ handleErrorCalls = <<>>
        /\ CountLogs(IsErrorLog) = 0
        /\ IF Done
           THEN pc = "Succeeded" /\ outcome = Return(hr.val) /\ CountLogs(IsSuccessLog) = 1
           ELSE outcome.kind = "pending" /\ CountLogs(IsSuccessLog) = 0

C1_Witness ==
    /\ variant = "Http" /\ pc = "Succeeded"
    /\ outcome.kind = "return" /\ outcome.val.type = "response"
    /\ outcome.val.statusCode = 201

C3_UnknownValueSynthesized ==
    (ValueFailure /\ Done) =>
        LET diag == {i \in DOMAIN logs : IsDiagnosticLog(logs[i])}
        IN  /\ Cardinality(diag) = 1
            /\ \A i \in diag : logs[i].meta = [data |-> [error |-> hr.val]]
            /\ Len(handleErrorCalls) = 1
            /\ LET g == handleErrorCalls[1].error
               IN  /\ InstanceOfError(g)
                   /\ g.name = "Error"
                   /\ g.message = "Unknown error occurred"
                   /\ g.message # hr.val.val
                   /\ g.id = nextId - 1
                   /\ \A i \in (DOMAIN logs) \ diag :
                         "error" \in DOMAIN logs[i].meta => logs[i].meta.error = g
                   /\ outcome.kind = "throw" => outcome.val = g
                   /\ outcome.kind = "return" =>
                         \A j \in DOMAIN outcome.val.body : outcome.val.body[j] # hr.val.val

C3_Witness ==
    /\ ValueFailure /\ Done /\ hr.val = [type |-> "string", val |-> "boom"]
    /\ Len(handleErrorCalls) = 1
    /\ handleErrorCalls[1].error.message = "Unknown error occurred"

C5_IdentityRethrowsSameInstance ==
    (variant = "Identity" /\ ErrorFailure) =>
        IF Done
        THEN /\ pc = "FailedEscalated"
             /\ outcome = Throw(hr.val)
             /\ CountLogs(IsErrorLog) = 1
             /\ \A i \in DOMAIN logs :
                   IsErrorLog(logs[i]) =>
                       logs[i].meta = [error |-> hr.val, event |-> EventRef]
        ELSE outcome.kind = "pending" /\ CountLogs(IsErrorLog) = 0

C5_Witness ==
    /\ variant = "Identity" /\ pc = "FailedEscalated"
    /\ hr.state = "rejected" /\ hr.val = NewError(1, "Error", "invalid token")
    /\ outcome.kind = "throw" /\ outcome.val.id = 1

\* C6: Identity specialization: no failure is suppressed. Whatever handleRequest()
\* fails with, handleError never returns a value and execute() never returns
\* normally: a normal return is the value handleRequest() resolved with, and a
\* failure of handleRequest() leads to execute() propagating a failure.
C6_IdentityNeverSuppresses ==
    /\ [](variant = "Identity" =>
            /\ \A i \in DOMAIN handleErrorCalls : handleErrorCalls[i].ret.kind = "throw"
            /\ hr.state = "rejected" => outcome.kind # "return"
            /\ outcome.kind = "return" => hr.state = "resolved" /\ outcome.val = hr.val)
    /\ (variant = "Identity" /\ hr.state = "rejected")
           ~> (outcome.kind = "throw" /\ pc = "FailedEscalated")

C6_Witness ==
    /\ variant = "Identity" /\ ValueFailure
    /\ outcome.kind = "throw" /\ InstanceOfError(outcome.val)
    /\ handleErrorCalls # <<>>

\* C7: HTTP specialization: no error escapes execute(). Whatever handleRequest() does
\* (resolve, fail with an Error, also one raised by checkAccess, parseJSONBody or
\* parseSchema, or fail with a value that is no Error), handleError returns and
\* execute() ends by returning a response, never by propagating a failure.
C7_HttpNeverEscapes ==
    variant = "Http" =>
        /\ pc # "FailedEscalated"
        /\ outcome.kind # "throw"
        /\ \A i \in DOMAIN handleErrorCalls : handleErrorCalls[i].ret.kind = "return"
        /\ Done => outcome.kind = "return" /\ outcome.val.type = "response"

C7_Witness ==
    /\ variant = "Http" /\ pc = "FailedHandled" /\ ErrorFailure
    /\ hr.val.name = "ParseError"
    /\ helperTrace # <<>> /\ helperTrace[Len(helperTrace)].op = "parseSchema"
    /\ outcome.kind = "return"

Terminal == {"Succeeded", "FailedHandled", "FailedEscalated"}

HandleErrorEnded(kind) ==
    /\ hr.state = "rejected"
    /\ Len(handleErrorCalls) = 1
    /\ handleErrorCalls[1].ret.kind = kind

\* The lifecycle state and what has happened so far agree.
LifecycleInv ==
    /\ pc \in {"Created", "Running"} \cup Terminal
    /\ pc = "Created" => hr.state = "idle" /\ outcome.kind = "pending"
    /\ pc = "Running" => hr.state # "idle" /\ outcome.kind = "pending"
    /\ pc \in Terminal => outcome.kind # "pending"
    /\ pc = "Succeeded" <=> (outcome.kind # "pending" /\ hr.state = "resolved")
    /\ pc = "FailedHandled" <=> (outcome.kind # "pending" /\ HandleErrorEnded("return"))
    /\ pc = "FailedEscalated" <=> (outcome.kind # "pending" /\ HandleErrorEnded("throw"))
    /\ pc \in {"Succeeded", "FailedHandled"} => outcome.kind = "return"
    /\ pc = "FailedEscalated" => outcome.kind = "throw"

\* The lifecycle moves Created -> Running -> one terminal state and stays there.
LifecycleStep ==
    /\ pc = "Created" => pc' = "Running"
    /\ pc = "Running" => pc' \in {"Running"} \cup Terminal
    /\ pc \in Terminal => pc' = pc /\ outcome' = outcome

\* C8: every invocation goes Created -> Running -> one terminal state: Succeeded iff
\* handleRequest resolved, Failed-Handled iff it failed and handleError returned a
\* value, Failed-Escalated iff it failed and handleError failed; the first two return
\* normally, the last propagates a failure; a terminal state is never left.
C8_Lifecycle == [](LifecycleInv) /\ [][LifecycleStep]_vars

C8_Witness ==
    /\ pc = "FailedHandled" /\ HandleErrorEnded("return")
    /\ hr.val.name = "AuthorizationError"
    /\ outcome.val.statusCode = 403

----------------------------------------------------------------------------
(* Properties of the HTTP helpers *)

CallsTo(e, name) == SelectSeq(e.calls, LAMBDA c : c.mediator = name)
DerivedView(event, body) == [event EXCEPT !.body = body]
ParserArgs(event) ==
    [context |-> ContextRef, body |-> event.body, headers |-> event.headers]
ValidatorArgs(event, body) ==
    [context |-> ContextRef, schema |-> this.schema,
     customEvent |-> DerivedView(event, body)]

\* The body of the derived view is {} and the parser was not called.
BodyTakenAbsent(e, event) ==
    /\ CallsTo(e, "parseJSONBody") = <<>>
    /\ CallsTo(e, "zodParser")[1].args = ValidatorArgs(event, EmptyMapping)

\* The body of the derived view is what the parser, called once, returned.
BodyTakenPresent(e, event) ==
    LET pj == CallsTo(e, "parseJSONBody")
    IN  /\ Len(pj) = 1
        /\ pj[1].args = ParserArgs(event)
        /\ pj[1].ret.kind = "return"
        /\ CallsTo(e, "zodParser")[1].args = ValidatorArgs(event, pj[1].ret.val)

\* C9 as stated, of one parseSchema() call e on the event: the validator is called
\* exactly once, with the bound schema and the event whose body is the parser's
\* result when a body is present and {} when it is absent (null), the parser not
\* being called then. The empty string is allowed to count as present or as absent.
ParseSchemaAsStated(e, event) ==
    /\ Len(CallsTo(e, "zodParser")) = 1
    /\ event.body.isNull => BodyTakenAbsent(e, event)
    /\ Truthy(event.body) => BodyTakenPresent(e, event)
    /\ BodyTakenAbsent(e, event) \/ BodyTakenPresent(e, event)
    /\ e.ret = CallsTo(e, "zodParser")[1].ret

C9_ParseSchemaAsStated ==
    \A i \in DOMAIN helperTrace :
        helperTrace[i].op = "parseSchema" =>
            ParseSchemaAsStated(helperTrace[i], heap[this.event])

\* C9, amended, of one parseSchema() call e on the event: a body that is null or
\* the empty string is not parsed, and the validator is called once with the bound
\* schema and the event whose body is {}; any other body is handed to the parser
\* once, with the event's headers; if the parser fails the validator is not called
\* and the call fails with the parser's error, else the validator is called once
\* with the event whose body is the parser's result; the call ends as the validator.
ParseSchemaAmended(e, event) ==
    LET zod == CallsTo(e, "zodParser")
        pj == CallsTo(e, "parseJSONBody")
    IN  /\ e.calls = pj \o zod
        /\ IF Truthy(event.body)
           THEN /\ Len(pj) = 1
                /\ pj[1].args = ParserArgs(event)
                /\ IF pj[1].ret.kind = "throw"
                   THEN zod = <<>> /\ e.ret = pj[1].ret
                   ELSE /\ Len(zod) = 1
                        /\ zod[1].args = ValidatorArgs(event, pj[1].ret.val)
                        /\ e.ret = zod[1].ret
           ELSE /\ pj = <<>>
                /\ Len(zod) = 1
                /\ zod[1].args = ValidatorArgs(event, EmptyMapping)
                /\ e.ret = zod[1].ret

\* C9, amended; the event object is not modified by any step.
C9_ParseSchemaDerivedView ==
    /\ [](\A i \in DOMAIN helperTrace :
            helperTrace[i].op = "parseSchema" =>
                ParseSchemaAmended(helperTrace[i], heap[this.event]))
    /\ [][heap' = heap]_vars

C9_Witness ==
    \E i \in DOMAIN helperTrace :
        /\ helperTrace[i].op = "parseSchema"
        /\ Truthy(heap[this.event].body)
        /\ CallsTo(helperTrace[i], "zodParser") = <<>>
        /\ helperTrace[i].ret.kind = "throw"
        /\ helperTrace[i].ret.val.name = "ParseError"

\* C10: checkAccess(roles) with the empty role set fails with AuthorizationError
\* whatever roles the actor holds; with a non-empty set it fails exactly when the
\* actor holds none of the given roles.
C10_CheckAccess ==
    \A i \in DOMAIN helperTrace :
        helperTrace[i].op = "checkAccess" =>
            LET e == helperTrace[i]
                roles == e.args.roles
                actor == heap[this.event].groups
            IN  /\ roles = {} => e.ret.kind = "throw"
                /\ roles # {} => (e.ret.kind = "throw" <=> roles \cap actor = {})
                /\ e.ret.kind = "throw" => e.ret.val.name = "AuthorizationError"
                /\ e.ret.kind = "return" => e.ret.val = Undefined

C10_Witness ==
    \E i \in DOMAIN helperTrace :
        /\ helperTrace[i].op = "checkAccess"
        /\ helperTrace[i].args.roles = {}
        /\ heap[this.event].groups = AuthRoles
        /\ helperTrace[i].ret.kind = "throw"
        /\ helperTrace[i].ret.val.name = "AuthorizationError"

----------------------------------------------------------------------------
(* The orchestrator and handleError's outcome *)

\* Once handleRequest() has failed, execute() ends exactly as its one call of
\* handleError ended; before that call it has not ended.
OutcomeIsHandleErrors ==
    hr.state = "rejected" =>
        IF Done
        THEN /\ Len(handleErrorCalls) = 1
             /\ outcome = handleErrorCalls[1].ret
        ELSE handleErrorCalls = <<>> /\ outcome.kind = "pending"

\* C11: when handleRequest fails, the value execute() returns is the value
\* handleError returned and the failure it propagates is the failure handleError
\* raised; handleError is called once and nothing runs after it completes (no
\* further catch, retry, second call or transformation).
C11_OutcomeNotWrapped ==
    /\ [](OutcomeIsHandleErrors)
    /\ [][(handleErrorCalls # <<>>) => FALSE]_vars

C11_Witness ==
    /\ variant = "Http" /\ pc = "FailedHandled" /\ ErrorFailure
    /\ hr.val.name = "DomainError"
    /\ Len(handleErrorCalls) = 1
    /\ outcome = handleErrorCalls[1].ret
    /\ outcome.val.statusCode = 500

----------------------------------------------------------------------------
(* What the orchestrator leaves alone *)

\* The instance holds the references it was constructed with, and every mediator is
\* called with that context, that event (or, for the validator, a derived view that
\* is a separate value) and the bound schema.
FrameInv ==
    /\ this.context = ContextRef
    /\ this.event = EventRef
    /\ variant = "Http" <=> "schema" \in DOMAIN this
    /\ \A i \in DOMAIN mediatorCalls :
          LET c == mediatorCalls[i]
          IN  /\ "context" \in DOMAIN c.args => c.args.context = this.context
              /\ "event" \in DOMAIN c.args => c.args.event = this.event
              /\ c.mediator = "zodParser" =>
                    /\ c.args.schema = this.schema
                    /\ \A f \in (DOMAIN heap[this.event]) \ {"body"} :
                          c.args.customEvent[f] = heap[this.event][f]

\* No step changes the instance's fields or the event's contents, and a step of
\* execute() itself changes only the log, the record of the calls it made and how
\* the invocation stands.
FrameStep ==
    /\ this' = this
    /\ heap' = heap
    /\ variant' = variant
    /\ pc' # pc => helperTrace' = helperTrace

\* C12: from construction through any run of execute(), HTTP helpers included, the
\* context reference, the event reference and the event's contents stay as they
\* were, and the bound schema stays the one given at construction; execute() itself
\* only logs and calls handleRequest, handleError and the mediators.
C12_Frame == [](FrameInv) /\ [][FrameStep]_vars

C12_Witness ==
    /\ variant = "Http" /\ Done
    /\ Truthy(heap[this.event].body)
    /\ \E i \in DOMAIN mediatorCalls :
          /\ mediatorCalls[i].mediator = "zodParser"
          /\ mediatorCalls[i].args.customEvent.body = [a |-> "1"]
    /\ \E i \in DOMAIN mediatorCalls : mediatorCalls[i].mediator = "checkAccess"

----------------------------------------------------------------------------
(* resetDatabase(): the database reset script *)

\* port: secret.port || 5432
DefaultPort == 5432

\* What the script can find in its environment and in Secrets Manager.
DbEnvs ==
    [ secretArn : BOOLEAN,                            \* process.env.DB_SECRET_ARN is set
      send : {"ok", "reject"},                        \* secretsClient.send(...)
      secretString : {"empty", "malformed", "json"},  \* secretData.SecretString
      port : {0, 5433} ]                              \* the secret's port, 0: none

\* An error, with the place that raised it.
DbError(from, message) == [from |-> from, message |-> message]

\* What a rejected client call is rejected with.
DbFailures == {"connection refused", "syntax error"}

\* getDbCredentials(): the secret, or the error it throws
getDbCredentials ==
    IF ~dbEnv.secretArn
    THEN Throw(DbError("getDbCredentials", "Missing DB_SECRET_ARN environment variable."))
    ELSE IF dbEnv.send = "reject"
    THEN Throw(DbError("secretsClient.send", "request failed"))
    ELSE IF dbEnv.secretString = "empty"
    THEN Throw(DbError("getDbCredentials", "SecretString is empty."))
    ELSE IF dbEnv.secretString = "malformed"
    THEN Throw(DbError("JSON.parse", "Unexpected token"))
    ELSE Return([host |-> "db.local", dbname |-> "app", username |-> "u",
                 password |-> "p", port |-> dbEnv.port])

\* new Client({...})
NewClient(secret) ==
    [host |-> secret.host, database |-> secret.dbname, user |-> secret.username,
     password |-> secret.password,
     port |-> IF secret.port # 0 THEN secret.port ELSE DefaultPort,
     ssl |-> [rejectUnauthorized |-> FALSE]]

\* The statements of a step: console.log(msg) and awaited client calls.
Log(msg) == [kind |-> "log", text |-> msg]
Call(method) == [kind |-> "call", text |-> method]

\* The steps of the try block, in the order of the code.
DbSteps ==
    << "connect", "dropAllTablesAndViews", "createSchema", "createMetadataView",
       "testInsertMetadata", "testSelectMetadata", "testUpdateMetadata",
       "testDeleteMetadata" >>

\* What each step runs, with the console.log calls of resetDatabase around it.
StepBody(step) ==
    CASE step = "connect" ->
            <<Call("connect"), Log("Connected to database!")>>
      [] step = "dropAllTablesAndViews" ->
            <<Log("Dropping all views..."), Call("query"),
              Log("Dropping all tables..."), Call("query"),
              Log("All tables and views dropped.")>>
      [] step = "createSchema" ->
            <<Log("Creating database schema..."), Call("query"),
              Log("Database schema created.")>>
      [] step = "createMetadataView" ->
            <<Log("Creating metadata view and triggers..."), Call("query"),
              Log("Metadata view and triggers created.")>>
      [] step = "testInsertMetadata" ->
            <<Log("Running tests..."), Log("Testing INSERT via metadata_view..."),
              Call("query"), Log("Inserted via metadata_view:")>>
      [] step = "testSelectMetadata" ->
            <<Log("Testing SELECT from metadata_view..."), Call("query"),
              Log("Retrieved metadata:")>>
      [] step = "testUpdateMetadata" ->
            <<Log("Testing UPDATE via metadata_view..."), Call("query"),
              Log("Updated category via metadata_view:")>>
      [] step = "testDeleteMetadata" ->
            <<Log("Testing DELETE via metadata_view..."), Call("query"),
              Log("Deleted category via metadata_view:"),
              Log("All tests completed successfully!"),
              Log("Database successfully reset!")>>

\* The console entries and the client calls of the statements items of a step.
ConsoleOf(items) ==
    [i \in 1..Len(SelectSeq(items, LAMBDA x : x.kind = "log")) |->
        [level |-> "log", text |-> SelectSeq(items, LAMBDA x : x.kind = "log")[i].text,
         error |-> {}]]
CallsOf(step, items) ==
    [i \in 1..Len(SelectSeq(items, LAMBDA x : x.kind = "call")) |->
        [step |-> step, method |-> SelectSeq(items, LAMBDA x : x.kind = "call")[i].text]]

DbFrame == UNCHANGED <<handlerVars, dbEnv, dbClient, dbResult>>

\* Mutant of RunStep: a step that fails is logged and the next step runs all the same.
RunStep_continues(step, next) ==
    /\ dbpc = step
    /\ \/ /\ dbCalls' = dbCalls \o CallsOf(step, StepBody(step))
          /\ dbConsole' = dbConsole \o ConsoleOf(StepBody(step))
          /\ dbpc' = next
          /\ UNCHANGED dbCaught
       \/ \E k \in DOMAIN StepBody(step), f \in DbFailures :
             /\ StepBody(step)[k].kind = "call"
             /\ dbCalls' = dbCalls \o CallsOf(step, SubSeq(StepBody(step), 1, k))
             /\ dbConsole' = dbConsole \o ConsoleOf(SubSeq(StepBody(step), 1, k))
             /\ dbCaught' = {DbError(step, f)}
             /\ dbpc' = next
    /\ DbFrame

\* One step of the try block: its statements run in order; a client call that is
\* rejected ends the step there and control goes to the catch block.
RunStep(step, next) ==
    /\ dbpc = step
    /\ \/ /\ dbCalls' = dbCalls \o CallsOf(step, StepBody(step))
          /\ dbConsole' = dbConsole \o ConsoleOf(StepBody(step))
          /\ dbpc' = next
          /\ UNCHANGED dbCaught
       \/ \E k \in DOMAIN StepBody(step), f \in DbFailures :
             /\ StepBody(step)[k].kind = "call"
             /\ dbCalls' = dbCalls \o CallsOf(step, SubSeq(StepBody(step), 1, k))
             /\ dbConsole' = dbConsole \o ConsoleOf(SubSeq(StepBody(step), 1, k))
             /\ dbCaught' = {DbError(step, f)}
             /\ dbpc' = "catch"
    /\ DbFrame

\* resetDatabase(), up to the try block (lines 291-301)
db_start ==
    /\ dbpc = "start"
    /\ dbConsole' = Append(dbConsole,
                      [level |-> "log", text |-> "Resetting database...", error |-> {}])
    /\ IF getDbCredentials.kind = "throw"
       THEN /\ dbResult' = [state |-> "rejected", error |-> {getDbCredentials.val}]
            /\ dbpc' = "done"
            /\ UNCHANGED dbClient
       ELSE /\ dbClient' = {NewClient(getDbCredentials.val)}
            /\ dbpc' = "connect"
            /\ UNCHANGED dbResult
    /\ UNCHANGED <<handlerVars, dbEnv, dbCalls, dbCaught>>

db_connect ==
    /\ dbClient # {}
    /\ RunStep("connect", "dropAllTablesAndViews")
db_dropAllTablesAndViews ==
    /\ dbClient # {}
    /\ RunStep("dropAllTablesAndViews", "createSchema")
db_createSchema ==
    /\ dbClient # {}
    /\ RunStep("createSchema", "createMetadataView")
db_createMetadataView ==
    /\ dbClient # {}
    /\ RunStep("createMetadataView", "testInsertMetadata")
db_testInsertMetadata ==
    /\ dbClient # {}
    /\ RunStep("testInsertMetadata", "testSelectMetadata")
db_testSelectMetadata ==
    /\ dbClient # {}
    /\ RunStep("testSelectMetadata", "testUpdateMetadata")
db_testUpdateMetadata ==
    /\ dbClient # {}
    /\ RunStep("testUpdateMetadata", "testDeleteMetadata")
db_testDeleteMetadata ==
    /\ dbClient # {}
    /\ RunStep("testDeleteMetadata", "finally")

\* catch (error) { console.error(...) }
db_catch ==
    /\ dbpc = "catch"
    /\ dbConsole' = Append(dbConsole,
                      [level |-> "error", text |-> "Error resetting database:",
                       error |-> dbCaught])
    /\ dbpc' = "finally"
    /\ UNCHANGED <<handlerVars, dbEnv, dbClient, dbCalls, dbCaught, dbResult>>

\* finally { await client.end(); console.log(...) }
db_finally ==
    /\ dbpc = "finally"
    /\ dbCalls' = Append(dbCalls, [step |-> "finally", method |-> "end"])
    /\ \/ /\ dbConsole' = Append(dbConsole,
                            [level |-> "log", text |-> "Database connection closed.",
                             error |-> {}])
          /\ dbResult' = [state |-> "resolved", error |-> {}]
       \/ \E f \in DbFailures :
             /\ dbResult' = [state |-> "rejected", error |-> {DbError("end", f)}]
             /\ UNCHANGED dbConsole
    /\ dbpc' = "done"
    /\ UNCHANGED <<handlerVars, dbEnv, dbClient, dbCaught>>

\* A handler that has been constructed and is not executed.
HandlerOff ==
    /\ variant = "Identity"
    /\ heap = [r \in {EventRef} |->
                 [triggerSource |-> "PreSignUp_SignUp", userName |-> "alice"]]
    /\ this = BaseHandler_constructor(ContextRef, EventRef)
    /\ pc = "Created"
    /\ hr = [state |-> "idle", val |-> Undefined]
    /\ helperTrace = <<>>
    /\ nextId = 1
    /\ logs = <<>>
    /\ handleErrorCalls = <<>>
    /\ mediatorCalls = <<>>
    /\ outcome = [kind |-> "pending", val |-> Undefined]

DbInit ==
    /\ HandlerOff
    /\ dbEnv \in DbEnvs
    /\ dbpc = "start"
    /\ dbClient = {}
    /\ dbCalls = <<>>
    /\ dbConsole = <<>>
    /\ dbCaught = {}
    /\ dbResult = [state |-> "pending", error |-> {}]

DbNext ==
    \/ db_start
    \/ db_connect
    \/ db_dropAllTablesAndViews
    \/ db_createSchema
    \/ db_createMetadataView
    \/ db_testInsertMetadata
    \/ db_testSelectMetadata
    \/ db_testUpdateMetadata
    \/ db_testDeleteMetadata
    \/ db_catch
    \/ db_finally

DbSpec == DbInit /\ [][DbNext]_vars

----------------------------------------------------------------------------
(* Properties of resetDatabase() *)

StepCallsOf(calls) == SelectSeq(calls, LAMBDA c : c.step # "finally")
EndCallsOf(calls) == SelectSeq(calls, LAMBDA c : c.method = "end")
StepIndex(step) == CHOOSE i \in DOMAIN DbSteps : DbSteps[i] = step
ConsoleErrors == SelectSeq(dbConsole, LAMBDA l : l.level = "error")

\* The client calls of the try block follow the order of DbSteps: they start with
\* connect, and each belongs to the step of the call before it or to the next step.
StepsInOrder ==
    LET sc == StepCallsOf(dbCalls)
    IN  \A i \in DOMAIN sc :
           /\ i = 1 => sc[i].step = "connect"
           /\ i > 1 => StepIndex(sc[i].step) - StepIndex(sc[i - 1].step) \in {0, 1}

\* A failed step is the last one that ran; its error goes to console.error, once,
\* and is not what resetDatabase() is rejected with.
FailureCaught ==
    LET sc == StepCallsOf(dbCalls)
    IN  /\ dbCaught # {} =>
              /\ sc # <<>>
              /\ \A e \in dbCaught : sc[Len(sc)].step = e.from
              /\ dbpc \in {"catch", "finally", "done"}
              /\ dbpc \in {"finally", "done"} =>
                    Len(ConsoleErrors) = 1 /\ ConsoleErrors[1].error = dbCaught
              /\ dbResult.error # dbCaught
        /\ (dbCaught = {} \/ dbpc = "catch") => ConsoleErrors = <<>>
        /\ (dbCaught = {} /\ dbpc \in {"finally", "done"} /\ dbClient # {}) =>
              /\ sc # <<>>
              /\ sc[Len(sc)].step = "testDeleteMetadata"
              /\ \A j \in DOMAIN DbSteps : \E i \in DOMAIN sc : sc[i].step = DbSteps[j]

\* client.end() is called once the try block is left, once, as the last call; no
\* client call is made before the client exists.
EndedOnce ==
    /\ dbClient = {} => dbCalls = <<>>
    /\ IF dbpc = "done" /\ dbClient # {}
       THEN /\ Len(EndCallsOf(dbCalls)) = 1
            /\ dbCalls[Len(dbCalls)].method = "end"
       ELSE EndCallsOf(dbCalls) = <<>>
    /\ (dbResult.state = "rejected" /\ dbClient # {}) =>
          \A e \in dbResult.error : e.from = "end"

\* Once a step has failed, no later step makes a call.
StopsAtFailure ==
    dbCaught # {} => StepCallsOf(dbCalls') = StepCallsOf(dbCalls)

\* C13: once the client is constructed the steps run in the order connect, drop,
\* create schema, create view, test insert, select, update, delete; the first failing
\* step keeps every later step from running, its error is caught and logged, not
\* propagated; client.end() is called exactly once, after the last step that ran, on
\* every path.
C13_ResetDatabaseSteps ==
    /\ [](StepsInOrder /\ FailureCaught /\ EndedOnce)
    /\ [][StopsAtFailure]_vars

C13_Witness ==
    /\ dbpc = "done"
    /\ dbCaught = {DbError("connect", "connection refused")}
    /\ dbCalls = << [step |-> "connect", method |-> "connect"],
                    [step |-> "finally", method |-> "end"] >>
    /\ dbResult.state = "resolved"

====
